---- MODULE Spec2Model ----
(***************************************************************************)
(* A model of the ParamEditor component of src/src/main.tsx: the three     *)
(* useState cells (paramValues, errors, dirtyFields), the validator, the   *)
(* change / blur / click handlers and the effect that re-reads the model.  *)
(*                                                                         *)
(* Strings are sequences of one-character strings, so that toLowerCase,    *)
(* join and template concatenation are computed character by character.    *)
(* The parser accepts ASCII only, so every Cyrillic literal of the source  *)
(* is written in Latin transliteration, letter case kept:                  *)
(*   "Назначение" Naznachenie, "Длина" Dlina, "Цвет" Cvet,                 *)
(*   "повседневное" povsednevnoe, "спортивное" sportivnoe, "макси" maksi,  *)
(*   "мини" mini, "белый" belyj, "синий" sinij, "не указано" ne ukazano.   *)
(***************************************************************************)
EXTENDS Integers, Sequences, FiniteSets, TLC

VARIABLES
    params,       \* props.params: the Param list (fixed after mount)
    paramValues,  \* useState: Record<number, string>
    errors,       \* useState: Record<number, string>
    dirtyFields,  \* useState: Record<number, boolean>
    alert,        \* the text passed to alert() by the last handler, or NoAlert
    last,         \* the event the last handler ran for
    blocked,      \* history: some submit has shown the failure alert
    twin          \* a second editor, same params and events, another model

vars == <<params, paramValues, errors, dirtyFields, alert, last, blocked, twin>>

(***************************************************************************)
(* Bounds.                                                                 *)
(***************************************************************************)
MaxModelLen == 2

(***************************************************************************)
(* String literals.                                                        *)
(***************************************************************************)
Naznachenie == <<"N","a","z","n","a","c","h","e","n","i","e">>
Dlina == <<"D","l","i","n","a">>
Cvet == <<"C","v","e","t">>
Razmer == <<"R","a","z","m","e","r">>
constructor == <<"c","o","n","s","t","r","u","c","t","o","r">>

povsednevnoe == <<"p","o","v","s","e","d","n","e","v","n","o","e">>
sportivnoe == <<"s","p","o","r","t","i","v","n","o","e">>
maksi == <<"m","a","k","s","i">>
mini == <<"m","i","n","i">>
belyj == <<"b","e","l","y","j">>
sinij == <<"s","i","n","i","j">>
MAKSI == <<"M","A","K","S","I">>
EmptyString == <<>>

\* JavaScript's null and undefined, and the TypeError a call of undefined throws.
null == <<"<null>">>
undefined == <<"<undefined>">>
TypeError == <<"<TypeError>">>

Truthy(s) == s # null /\ s # undefined /\ s # EmptyString

\* a || b
Or(a, b) == IF Truthy(a) THEN a ELSE b

\* obj[key] on a Record<number, *>.
Lookup(obj, key) == IF key \in DOMAIN obj THEN obj[key] ELSE undefined

\* { ...obj, [key]: value }
Put(obj, key, value) ==
    [k \in DOMAIN obj \cup {key} |-> IF k = key THEN value ELSE obj[k]]

EmptyObject == [k \in {} |-> EmptyString]

UpperCase == <<"A","B","C","D","E","F","G","H","I","J","K","L","M",
               "N","O","P","Q","R","S","T","U","V","W","X","Y","Z">>
LowerCase == <<"a","b","c","d","e","f","g","h","i","j","k","l","m",
               "n","o","p","q","r","s","t","u","v","w","x","y","z">>

toLowerCaseChar(c) ==
    IF \E i \in DOMAIN UpperCase : UpperCase[i] = c
    THEN LowerCase[CHOOSE i \in DOMAIN UpperCase : UpperCase[i] = c]
    ELSE c

toLowerCase(s) == [i \in DOMAIN s |-> toLowerCaseChar(s[i])]

\* Array.prototype.includes
includes(arr, x) == \E i \in DOMAIN arr : arr[i] = x

\* Array.prototype.join
RECURSIVE join(_, _)
join(arr, sep) ==
    IF arr = <<>> THEN EmptyString
    ELSE IF Len(arr) = 1 THEN arr[1]
    ELSE arr[1] \o sep \o join(Tail(arr), sep)

(***************************************************************************)
(* Props: the Param lists and Models the editor is mounted with.           *)
(***************************************************************************)
Param(id, name) == [id |-> id, name |-> name, type |-> "string"]
ParamValue(paramId, value) == [paramId |-> paramId, value |-> value]

demoParams == <<Param(1, Naznachenie), Param(2, Dlina), Param(3, Cvet)>>
demoModel == <<ParamValue(1, povsednevnoe), ParamValue(2, maksi)>>

\* Other hosts' Param lists: a name the allow-list table does not have, and a
\* name that is a member of Object.prototype.
ParamLists ==
    { demoParams,
      <<Param(2, Dlina), Param(7, Razmer)>>,
      <<Param(2, Dlina), Param(5, constructor)>> }

\* What the user types into a field.
EditValues == {EmptyString, maksi, MAKSI, sinij}

\* Model.paramValues: demoModel, a model that names one id twice, and every
\* sequence of at most MaxModelLen of these entries (9 is the id of no Param).
ModelEntries == {ParamValue(2, maksi), ParamValue(9, sinij)}

repeatedIdModel == <<ParamValue(2, maksi), ParamValue(2, sinij)>>

SeqsUpTo(S, n) == UNION {[1..k -> S] : k \in 0..n}

Models == SeqsUpTo(ModelEntries, MaxModelLen) \cup {demoModel, repeatedIdModel}

ParamIds(ps) == {ps[i].id : i \in DOMAIN ps}

\* m without the entries whose paramId is the id of no Param.
Matched(ps, m) == SelectSeq(m, LAMBDA pv : pv.paramId \in ParamIds(ps))

(***************************************************************************)
(* The useState initializer and the effect on [model].                     *)
(***************************************************************************)
RECURSIVE valuesOfModel(_)
valuesOfModel(m) ==
    IF m = <<>> THEN EmptyObject
    ELSE LET item == m[Len(m)]
             init == valuesOfModel(SubSeq(m, 1, Len(m) - 1))
         IN  Put(init, item.paramId, item.value)

(***************************************************************************)
(* validateParamValue.                                                     *)
(***************************************************************************)
allowedValues ==
    (Naznachenie :> <<povsednevnoe, sportivnoe>>) @@
    (Dlina :> <<maksi, mini>>) @@
    (Cvet :> <<belyj, sinij>>)

\* allowedValues is an object literal: a property read also finds the members
\* it inherits from Object.prototype, which are functions or objects.
ObjectPrototypeKeys == {constructor}
InheritedMember == <<"<inherited>">>

allowedValuesAt(paramName) ==
    IF paramName \in DOMAIN allowedValues THEN allowedValues[paramName]
    ELSE IF paramName \in ObjectPrototypeKeys THEN InheritedMember
    ELSE undefined

MessagePrefix ==
    <<"D","o","p","u","s","t","i","m","y","e"," ","z","n","a","c","h","e",
      "n","i","y","a",":"," ">>

validateParamValue(paramName, value) ==
    LET allowed == allowedValuesAt(paramName) IN
    IF allowed # undefined
    THEN IF Truthy(value)
         THEN IF allowed = InheritedMember
              THEN TypeError        \* .includes is undefined there
              ELSE IF ~includes(allowed, toLowerCase(value))
                   THEN MessagePrefix \o join(allowed, <<",", " ">>)
                   ELSE null
         ELSE null
    ELSE null

(***************************************************************************)
(* The handlers, as functions of one editor's state                        *)
(*   [paramValues, errors, dirtyFields, alert].                            *)
(***************************************************************************)
NoAlert == <<"<no alert>">>

FailureText ==
    <<"P","o","z","h","a","l","u","j","s","t","a",","," ","i","s","p","r",
      "a","v","t","e"," ","o","s","h","i","b","k","i"," ","p","e","r","e",
      "d"," ","o","t","p","r","a","v","k","o","j">>

SummaryHeader ==
    <<"V","v","e","d","y","o","n","n","y","e"," ","z","n","a","c","h","e",
      "n","i","y","a"," ","p","a","r","a","m","e","t","r","o","v",":","\n",
      "\n">>

Placeholder ==
    <<"n","e"," ","u","k","a","z","a","n","o">>

\* Mutant: the change handler validates as the user types.
handleParamChange_Validating(st, paramId, value) ==
    [st EXCEPT !.paramValues = Put(st.paramValues, paramId, value),
               !.errors = Put(st.errors, paramId,
                              IF value = EmptyString THEN EmptyString
                              ELSE MessagePrefix \o value),
               !.alert = NoAlert]

handleParamChange(st, paramId, value) ==
    [st EXCEPT !.paramValues = Put(st.paramValues, paramId, value),
               !.errors = IF Truthy(Lookup(st.errors, paramId))
                          THEN Put(st.errors, paramId, EmptyString)
                          ELSE st.errors,
               !.alert = NoAlert]

handleBlur(st, paramId, paramName) ==
    LET value == Or(Lookup(st.paramValues, paramId), EmptyString)
        error == validateParamValue(paramName, value)
    IN  IF error = TypeError
        THEN [st EXCEPT !.alert = NoAlert]
        ELSE [st EXCEPT !.errors = Put(st.errors, paramId, Or(error, EmptyString)),
                        !.dirtyFields = Put(st.dirtyFields, paramId, TRUE),
                        !.alert = NoAlert]

\* Object.entries(paramValues): integer keys come in ascending order.
RECURSIVE getModel(_)
getModel(values) ==
    IF DOMAIN values = {} THEN <<>>
    ELSE LET k == CHOOSE k \in DOMAIN values : \A j \in DOMAIN values : k <= j
             rest == [j \in DOMAIN values \ {k} |-> values[j]]
         IN  <<ParamValue(k, values[k])>> \o getModel(rest)

\* currentModel.paramValues.find((p) => p.paramId === id)?.value
findValue(pvs, id) ==
    IF \E i \in DOMAIN pvs : pvs[i].paramId = id
    THEN pvs[CHOOSE i \in DOMAIN pvs :
                /\ pvs[i].paramId = id
                /\ \A j \in 1..(i - 1) : pvs[j].paramId # id].value
    ELSE undefined

\* The forEach of handleClick over params[1..n]: the errors it has collected,
\* or threw when a call of validateParamValue throws.
RECURSIVE validateAll(_, _, _)
validateAll(ps, values, n) ==
    IF n = 0 THEN [threw |-> FALSE, newErrors |-> EmptyObject, hasErrors |-> FALSE]
    ELSE LET before == validateAll(ps, values, n - 1)
             param == ps[n]
             error == validateParamValue(param.name,
                                         Or(Lookup(values, param.id), EmptyString))
         IN  IF before.threw \/ error = TypeError
             THEN [before EXCEPT !.threw = TRUE]
             ELSE IF Truthy(error)
                  THEN [before EXCEPT !.newErrors = Put(@, param.id, error),
                                      !.hasErrors = TRUE]
                  ELSE before

\* Mutant: one line per stored entry, not per Param.
formattedOutput_AllEntries(ps, values) ==
    LET currentModel == getModel(values)
        name(id) == IF \E i \in DOMAIN ps : ps[i].id = id
                    THEN ps[CHOOSE i \in DOMAIN ps : ps[i].id = id].name
                    ELSE Placeholder
        line(pv) == name(pv.paramId) \o <<":", " ">> \o Or(pv.value, Placeholder)
    IN  join([i \in DOMAIN currentModel |-> line(currentModel[i])], <<"\n">>)

\* Mutant: no fallback to the placeholder.
formattedOutput_NoPlaceholder(ps, values) ==
    LET currentModel == getModel(values)
        line(param) == param.name \o <<":", " ">> \o
                       Or(findValue(currentModel, param.id), EmptyString)
    IN  join([i \in DOMAIN ps |-> line(ps[i])], <<"\n">>)

formattedOutput(ps, values) ==
    LET currentModel == getModel(values)
        line(param) == param.name \o <<":", " ">> \o
                       Or(findValue(currentModel, param.id), Placeholder)
    IN  join([i \in DOMAIN ps |-> line(ps[i])], <<"\n">>)

\* Mutant: the return after the failure alert is missing.
handleClick_NoReturn(st, ps) ==
    LET checked == validateAll(ps, st.paramValues, Len(ps))
        allDirty == [id \in ParamIds(ps) |-> TRUE]
    IN  IF checked.threw
        THEN [st EXCEPT !.alert = NoAlert]
        ELSE [st EXCEPT !.errors = checked.newErrors,
                        !.dirtyFields = allDirty,
                        !.alert = SummaryHeader \o formattedOutput(ps, st.paramValues)]

\* Mutant: the errors recorded earlier are consulted instead of re-validating.
handleClick_StaleErrors(st, ps) ==
    LET checked == validateAll(ps, st.paramValues, Len(ps))
        allDirty == [id \in ParamIds(ps) |-> TRUE]
        stale == \E id \in DOMAIN st.errors : Truthy(st.errors[id])
    IN  IF checked.threw
        THEN [st EXCEPT !.alert = NoAlert]
        ELSE IF checked.hasErrors \/ stale
        THEN [st EXCEPT !.errors = checked.newErrors,
                        !.dirtyFields = allDirty,
                        !.alert = FailureText]
        ELSE [st EXCEPT !.errors = checked.newErrors,
                        !.dirtyFields = allDirty,
                        !.alert = SummaryHeader \o formattedOutput(ps, st.paramValues)]

handleClick(st, ps) ==
    LET checked == validateAll(ps, st.paramValues, Len(ps))
        allDirty == [id \in ParamIds(ps) |-> TRUE]
    IN  IF checked.threw
        THEN [st EXCEPT !.alert = NoAlert]
        ELSE IF checked.hasErrors
        THEN [st EXCEPT !.errors = checked.newErrors,
                        !.dirtyFields = allDirty,
                        !.alert = FailureText]
        ELSE [st EXCEPT !.errors = checked.newErrors,
                        !.dirtyFields = allDirty,
                        !.alert = SummaryHeader \o formattedOutput(ps, st.paramValues)]

\* Mutant: the new model's values are merged into the old ones.
modelEffect_Merge(st, m) ==
    LET new == valuesOfModel(m) IN
    [st EXCEPT !.paramValues =
                   [k \in DOMAIN st.paramValues \cup DOMAIN new |->
                       IF k \in DOMAIN new THEN new[k] ELSE st.paramValues[k]],
               !.alert = NoAlert]

\* useEffect(..., [model])
modelEffect(st, m) ==
    [st EXCEPT !.paramValues = valuesOfModel(m), !.alert = NoAlert]

\* The state after the first render and its effect.
mounted(m) ==
    [paramValues |-> valuesOfModel(m), errors |-> EmptyObject,
     dirtyFields |-> EmptyObject, alert |-> NoAlert]

(***************************************************************************)
(* The state machine: one action per event.                                *)
(***************************************************************************)
Editor ==
    [paramValues |-> paramValues, errors |-> errors,
     dirtyFields |-> dirtyFields, alert |-> alert]

Becomes(st) ==
    /\ paramValues' = st.paramValues
    /\ errors' = st.errors
    /\ dirtyFields' = st.dirtyFields
    /\ alert' = st.alert

InitEditor(st) ==
    /\ paramValues = st.paramValues
    /\ errors = st.errors
    /\ dirtyFields = st.dirtyFields
    /\ alert = st.alert

Event(op, id, value, m) == [op |-> op, id |-> id, value |-> value, model |-> m]

\* The Models that differ from m only in entries matching no Param.
TwinModels(ps, m) == {m2 \in Models : Matched(ps, m2) = Matched(ps, m)}

Init ==
    /\ params \in ParamLists
    /\ \E m \in Models :
        /\ InitEditor(mounted(m))
        /\ last = Event("mount", 0, EmptyString, m)
        /\ \E m2 \in TwinModels(params, m) : twin = mounted(m2)
    /\ blocked = FALSE

ModelChange(m, m2) ==
    /\ Becomes(modelEffect(Editor, m))
    /\ twin' = modelEffect(twin, m2)
    /\ last' = Event("model", 0, EmptyString, m)
    /\ UNCHANGED <<params, blocked>>

Change(i, value) ==
    /\ Becomes(handleParamChange(Editor, params[i].id, value))
    /\ twin' = handleParamChange(twin, params[i].id, value)
    /\ last' = Event("change", params[i].id, value, <<>>)
    /\ UNCHANGED <<params, blocked>>

Blur(i) ==
    /\ Becomes(handleBlur(Editor, params[i].id, params[i].name))
    /\ twin' = handleBlur(twin, params[i].id, params[i].name)
    /\ last' = Event("blur", params[i].id, EmptyString, <<>>)
    /\ UNCHANGED <<params, blocked>>

Click ==
    /\ Becomes(handleClick(Editor, params))
    /\ twin' = handleClick(twin, params)
    /\ last' = Event("submit", 0, EmptyString, <<>>)
    /\ blocked' = (blocked \/ alert' = FailureText)
    /\ UNCHANGED params

Next ==
    \/ \E m \in Models : \E m2 \in TwinModels(params, m) : ModelChange(m, m2)
    \/ \E i \in DOMAIN params : \E value \in EditValues : Change(i, value)
    \/ \E i \in DOMAIN params : Blur(i)
    \/ Click

Spec == Init /\ [][Next]_vars


(***************************************************************************)
(* What the render shows for a field.                                      *)
(***************************************************************************)
\* value={paramValues[param.id] || ""}
fieldValue(st, id) == Or(Lookup(st.paramValues, id), EmptyString)

\* dirtyFields[param.id] && errors[param.id] ? errors[param.id] : hint
NoError == <<"<hint>">>
displayedError(st, id) ==
    IF id \in DOMAIN st.dirtyFields /\ st.dirtyFields[id] /\ Truthy(Lookup(st.errors, id))
    THEN st.errors[id]
    ELSE NoError

(***************************************************************************)
(* Vocabulary of the properties.                                           *)
(***************************************************************************)
Validation(st, param) == validateParamValue(param.name, fieldValue(st, param.id))
IsMessage(r) == r # null /\ r # TypeError
Passes(st, param) == Validation(st, param) = null
Fails(st, param) == IsMessage(Validation(st, param))
AllPass(st) == \A i \in DOMAIN params : Passes(st, params[i])
SomeFails(st) == \E i \in DOMAIN params : Fails(st, params[i])
Touched(st, id) == id \in DOMAIN st.dirtyFields /\ st.dirtyFields[id]
ParamOf(id) == params[CHOOSE i \in DOMAIN params : params[i].id = id]

IsSummary(a) ==
    /\ a # NoAlert
    /\ Len(a) >= Len(SummaryHeader)
    /\ SubSeq(a, 1, Len(SummaryHeader)) = SummaryHeader

PlainNames == \A i \in DOMAIN params : params[i].name \notin ObjectPrototypeKeys

SummaryWith(pick(_)) ==
    SummaryHeader \o
    join([i \in DOMAIN params |-> params[i].name \o <<":", " ">> \o pick(params[i].id)],
         <<"\n">>)

StoredOrPlaceholderIfAbsent(id) ==
    IF id \in DOMAIN paramValues THEN paramValues[id] ELSE Placeholder

StoredOrPlaceholderIfEmpty(id) ==
    IF id \in DOMAIN paramValues /\ paramValues[id] # EmptyString
    THEN paramValues[id]
    ELSE Placeholder

\* C2 as stated: the summary of a submit that passes validation has one line
\* "name: value" per Param, in params order, value being the stored value, or
\* the placeholder when the store has no entry for the Param's id.
C2_SummaryPlaceholderOnlyIfAbsent ==
    (last.op = "submit" /\ IsSummary(alert)) =>
        alert = SummaryWith(StoredOrPlaceholderIfAbsent)

\* C2 amended: the placeholder also stands for a stored empty string.
C2_SummaryLines ==
    (last.op = "submit" /\ AllPass(Editor)) =>
        alert = SummaryWith(StoredOrPlaceholderIfEmpty)

\* The spec's end-to-end example: demoParams, the store as demoModel gives it.
C2_Witness ==
    /\ params = demoParams
    /\ last.op = "submit"
    /\ paramValues = (1 :> povsednevnoe) @@ (2 :> maksi)
    /\ alert = SummaryHeader \o
               Naznachenie \o <<":", " ">> \o povsednevnoe \o <<"\n">> \o
               Dlina \o <<":", " ">> \o maksi \o <<"\n">> \o
               Cvet \o <<":", " ">> \o Placeholder

ModelIds(m) == {m[i].paramId : i \in DOMAIN m}
LastEntry(m, id) ==
    m[CHOOSE i \in DOMAIN m :
          /\ m[i].paramId = id
          /\ \A j \in DOMAIN m : (j > i) => m[j].paramId # id]

\* C3: after the mount and after every Model change the store maps exactly the
\* paramIds of the new Model.paramValues to their values (the last entry of an
\* id named twice), whatever was edited before; a Param with no entry reads "".
C3_StoreReplacedByModel ==
    (last.op \in {"mount", "model"}) =>
        /\ DOMAIN paramValues = ModelIds(last.model)
        /\ \A id \in ModelIds(last.model) :
               paramValues[id] = LastEntry(last.model, id).value
        /\ \A i \in DOMAIN params :
               (params[i].id \notin ModelIds(last.model)) =>
                   fieldValue(Editor, params[i].id) = EmptyString

\* A field no Model names, whose recorded error message shows that the user had
\* typed an invalid value into it, and which the store no longer has.
C3_Witness ==
    /\ last.op = "model"
    /\ \E i \in DOMAIN params :
           /\ \A m \in Models : params[i].id \notin ModelIds(m)
           /\ Truthy(Lookup(errors, params[i].id))
           /\ params[i].id \notin DOMAIN paramValues
           /\ params[i].id \notin ModelIds(last.model)

\* C4: validateParamValue(name, value) is an error message exactly when name is
\* a key of the allow-list table, value is non-empty and its lower-cased form is
\* not in the name's list; the message lists the name's allowed values; an
\* empty value, and a name the table does not have, never yield an error.
C4_ValidateContract ==
    \A i \in DOMAIN params :
        LET name == params[i].name
            value == fieldValue(Editor, params[i].id)
            r == validateParamValue(name, value)
        IN  /\ (r # null) <=>
                   /\ name \in DOMAIN allowedValues
                   /\ value # EmptyString
                   /\ ~includes(allowedValues[name], toLowerCase(value))
            /\ (r # null) =>
                   /\ name \in DOMAIN allowedValues
                   /\ r = MessagePrefix \o join(allowedValues[name], <<",", " ">>)
            /\ (value = EmptyString) => r = null
            /\ (name \notin DOMAIN allowedValues) => r = null

\* C4 holds of the Param lists none of whose names Object.prototype has.
C4_HoldsForPlainNames == PlainNames => C4_ValidateContract

\* C5: a submit made when every Param's stored value passes validation shows
\* the summary, whatever errors and touched flags were recorded before it.
C5_Recoverable ==
    [][(last'.op = "submit" /\ AllPass(Editor)) => IsSummary(alert')]_vars

\* A summary shown after an earlier submit was blocked.
C5_Witness ==
    /\ blocked
    /\ last.op = "submit"
    /\ IsSummary(alert)

\* C6: a change event stores the new value under the field's id, leaves every
\* other stored value and every touched flag as it was, and records no
\* non-empty error.
C6_ChangeFrame ==
    [][(last'.op = "change") =>
          /\ DOMAIN paramValues' = DOMAIN paramValues \cup {last'.id}
          /\ paramValues'[last'.id] = last'.value
          /\ \A k \in DOMAIN paramValues \ {last'.id} : paramValues'[k] = paramValues[k]
          /\ dirtyFields' = dirtyFields
          /\ \A k \in DOMAIN errors' :
                 Truthy(errors'[k]) => (k \in DOMAIN errors /\ errors'[k] = errors[k])
      ]_vars

\* A change to a value that fails validation, with no error recorded for it.
C6_Witness ==
    /\ last.op = "change"
    /\ Fails(Editor, ParamOf(last.id))
    /\ ~Truthy(Lookup(errors, last.id))

\* C7: a blur records the validation of the field's stored value as the field's
\* error and marks the field touched; a non-empty recorded error implies that
\* the field is touched.
C7_BlurRecordsError ==
    /\ (last.op = "blur") =>
           /\ Lookup(errors, last.id) =
                  Or(Validation(Editor, ParamOf(last.id)), EmptyString)
           /\ Touched(Editor, last.id)
    /\ \A id \in DOMAIN errors : Truthy(errors[id]) => Touched(Editor, id)

\* C7 holds of the Param lists none of whose names Object.prototype has.
C7_HoldsForPlainNames == PlainNames => C7_BlurRecordsError

\* C8: an editor whose Model differs only in entries matching no Param shows,
\* after the same events, the same field values, the same errors and the same
\* alert (blocked or not, and the same summary text).
C8_UnmatchedEntriesIgnored ==
    /\ twin.alert = alert
    /\ \A i \in DOMAIN params :
           /\ fieldValue(twin, params[i].id) = fieldValue(Editor, params[i].id)
           /\ Lookup(twin.errors, params[i].id) = Lookup(errors, params[i].id)
           /\ displayedError(twin, params[i].id) = displayedError(Editor, params[i].id)

\* A summary shown by two editors whose stores differ.
C8_Witness ==
    /\ last.op = "submit"
    /\ IsSummary(alert)
    /\ twin.paramValues # paramValues

FailingErrors(st) ==
    LET failing == {id \in ParamIds(params) : Fails(st, ParamOf(id))}
    IN  [id \in failing |-> Validation(st, ParamOf(id))]

\* C9: every submit replaces the error map by exactly the errors of the Params
\* that fail validation, marks exactly the Params touched, and leaves the
\* stored values as they were.
C9_SubmitReplacesMaps ==
    [][(last'.op = "submit") =>
          /\ errors' = FailingErrors(Editor)
          /\ dirtyFields' = [id \in ParamIds(params) |-> TRUE]
          /\ paramValues' = paramValues
      ]_vars

\* C9 holds of the Param lists none of whose names Object.prototype has.
C9_HoldsForPlainNames ==
    [][(PlainNames /\ last'.op = "submit") =>
          /\ errors' = FailingErrors(Editor)
          /\ dirtyFields' = [id \in ParamIds(params) |-> TRUE]
          /\ paramValues' = paramValues
      ]_vars

\* C10: a field that displays an error holds a value that fails validation.
C10_NoStaleError ==
    \A i \in DOMAIN params :
        (displayedError(Editor, params[i].id) # NoError) => Fails(Editor, params[i])

====
